---------------------------- MODULE Spec2Model ----------------------------
(***************************************************************************)
(* Model of the agentic tool-use loop of the Live2D AI Agent backend:      *)
(*   backend/ai_models/agent.py        AgentExecutor                       *)
(*   backend/ai_models/llm_manager.py  LLMManager.generate_with_tools      *)
(*   backend/config.py                 Settings.max_agent_iterations       *)
(*                                                                         *)
(* Text is a sequence of one-element strings: a letter, a blank, or one    *)
(* lexical token of a JSON directive ("{", ":", "\"tool\"", ...).          *)
(***************************************************************************)
EXTENDS Integers, Sequences, FiniteSets, TLC

(***************************************************************************)
(* Bounds of the model.                                                    *)
(***************************************************************************)
NumTasks == 2
MaxCalls == 1
MaxNum == 2
\* calls of register_tool after construction
MaxRegistrations == 2
\* fragments of a reply text handed to the tool-call parser
MaxFragments == 3
\* calls of execute_task whose executions may overlap
MaxOverlappingCalls == 2

Tasks == 1..NumTasks

\* where a call of execute_task can be while it holds the event loop: no
\* other coroutine runs until it suspends or ends.  A call is at "loop"
\* before the while test, "generating" in generate_with_tools, "tools"
\* before a tool call, "calling" in a handler that does not suspend, "exit"
\* after the loop; at "awaiting" it is suspended in a coroutine handler
RunningStates == {"loop", "generating", "tools", "calling", "exit"}
InFlightStates == RunningStates \cup {"awaiting"}

(***************************************************************************)
(* Program constants.                                                      *)
(***************************************************************************)
max_agent_iterations == 5

None == <<"null", "">>

(***************************************************************************)
(* str.lower() on the letters the texts of the model use.                  *)
(***************************************************************************)
UpperLetters == <<"A","B","C","D","E","F","G","H","I","J","K","L","M",
                  "N","O","P","Q","R","S","T","U","V","W","X","Y","Z">>
LowerLetters == <<"a","b","c","d","e","f","g","h","i","j","k","l","m",
                  "n","o","p","q","r","s","t","u","v","w","x","y","z">>

LowerChar(c) ==
    IF \E i \in 1..26 : UpperLetters[i] = c
    THEN LowerLetters[CHOOSE i \in 1..26 : UpperLetters[i] = c]
    ELSE c

Lower(text) == [i \in 1..Len(text) |-> LowerChar(text[i])]

\* the Python test `kw in text` on strings
Contains(text, kw) ==
    \E i \in 1..(Len(text) - Len(kw) + 1) : SubSeq(text, i, i + Len(kw) - 1) = kw

completion_keywords ==
    << <<"c","o","m","p","l","e","t","e","d">>,
       <<"f","i","n","i","s","h","e","d">>,
       <<"d","o","n","e">>,
       <<"a","c","c","o","m","p","l","i","s","h","e","d">> >>

\* any(keyword in response["response"].lower() for keyword in completion_keywords)
CompletionKeywordFound(text) ==
    \E k \in 1..Len(completion_keywords) : Contains(Lower(text), completion_keywords[k])

(***************************************************************************)
(* Tool-call parsing of LLMManager.generate_with_tools.                    *)
(***************************************************************************)
IsBrace(c) == c \in {"{", "}"}

\* the end of the regex match r'\{[^{}]*"tool"[^{}]*\}' that starts at i, or 0
MatchEnd(text, i) ==
    IF text[i] # "{" THEN 0
    ELSE IF \E j \in (i+1)..Len(text) : IsBrace(text[j])
         THEN LET j == CHOOSE j \in (i+1)..Len(text) :
                          /\ IsBrace(text[j])
                          /\ \A k \in (i+1)..(j-1) : ~IsBrace(text[k])
              IN IF text[j] = "}" /\ \E k \in (i+1)..(j-1) : text[k] = "\"tool\""
                 THEN j ELSE 0
         ELSE 0

RECURSIVE FindAllFrom(_, _)
\* re.findall(json_pattern, response_text): the matches left to right
FindAllFrom(text, i) ==
    IF i > Len(text) THEN <<>>
    ELSE IF MatchEnd(text, i) # 0
         THEN <<SubSeq(text, i, MatchEnd(text, i))>> \o FindAllFrom(text, MatchEnd(text, i) + 1)
         ELSE FindAllFrom(text, i + 1)

FindAll(text) == FindAllFrom(text, 1)

RECURSIVE Replace(_, _)
\* text.replace(m, ""): every occurrence of m is removed, left to right
Replace(text, m) ==
    IF Len(text) < Len(m) \/ Len(m) = 0 THEN text
    ELSE IF SubSeq(text, 1, Len(m)) = m
         THEN Replace(SubSeq(text, Len(m) + 1, Len(text)), m)
         ELSE <<text[1]>> \o Replace(Tail(text), m)

RECURSIVE ReplaceEach(_, _)
\* for match in matches: response_text = response_text.replace(match, "")
ReplaceEach(text, matches) ==
    IF matches = <<>> THEN text
    ELSE ReplaceEach(Replace(text, Head(matches)), Tail(matches))

RECURSIVE LStrip(_)
LStrip(text) == IF text # <<>> /\ Head(text) = " " THEN LStrip(Tail(text)) ELSE text

RECURSIVE RStrip(_)
RStrip(text) ==
    IF text # <<>> /\ text[Len(text)] = " "
    THEN RStrip(SubSeq(text, 1, Len(text) - 1)) ELSE text

\* str.strip()
Strip(text) == RStrip(LStrip(text))

RECURSIVE Join(_, _)
\* sep.join(parts)
Join(sep, parts) ==
    IF parts = <<>> THEN <<>>
    ELSE IF Len(parts) = 1 THEN parts[1]
    ELSE parts[1] \o sep \o Join(sep, Tail(parts))

(***************************************************************************)
(* json.loads on one match.  A JSON value is a pair <<type, text>>.        *)
(***************************************************************************)
JsonStrings == {"\"tool\"", "\"parameters\"", "\"get_current_time\"",
                "\"calculator\"", "\"frobnicate\"", "\"2+2\"", "\"x\"",
                "\"echo\"", "\"msg\"", "\"hi\""}

JsonScalar(tok) ==
    IF tok \in JsonStrings THEN <<"str", tok>>
    ELSE IF tok = "null" THEN None
    ELSE IF tok = "[\"x\"]" THEN <<"list", tok>>
    ELSE IF tok = "7" THEN <<"int", tok>>
    ELSE <<"invalid", tok>>

\* the outcome of json.loads on text that is not JSON
JSONDecodeError == << <<"#JSONDecodeError", None>> >>

NoBlanks(text) == SelectSeq(text, LAMBDA c : c # " ")

RECURSIVE LoadMembers(_)
\* the members  key : value (, key : value)*  of an object, as <<key, value>>
\* pairs, or JSONDecodeError
LoadMembers(toks) ==
    IF Len(toks) < 3 \/ toks[1] \notin JsonStrings \/ toks[2] # ":"
       \/ JsonScalar(toks[3])[1] = "invalid"
    THEN JSONDecodeError
    ELSE IF Len(toks) = 3 THEN << <<toks[1], JsonScalar(toks[3])>> >>
    ELSE IF toks[4] # "," THEN JSONDecodeError
    ELSE LET rest == LoadMembers(SubSeq(toks, 5, Len(toks)))
         IN IF rest = JSONDecodeError THEN rest
            ELSE << <<toks[1], JsonScalar(toks[3])>> >> \o rest

\* json.loads(match) of a brace-delimited match
JsonLoads(match) ==
    LET toks == NoBlanks(match)
    IN IF Len(toks) = 2 THEN <<>>
       ELSE LoadMembers(SubSeq(toks, 2, Len(toks) - 1))

\* `key in d`
HasKey(d, key) == \E i \in 1..Len(d) : d[i][1] = key

\* d.get(key, default); a repeated key keeps its last value
DictGet(d, key, default) ==
    IF HasKey(d, key)
    THEN d[CHOOSE i \in 1..Len(d) :
              d[i][1] = key /\ \A j \in (i+1)..Len(d) : d[j][1] # key][2]
    ELSE default

RECURSIVE ParseToolCalls(_)
\* llm_manager.py:116-122
ParseToolCalls(matches) ==
    IF matches = <<>> THEN <<>>
    ELSE LET d == JsonLoads(Head(matches))
         IN (IF d # JSONDecodeError /\ HasKey(d, "\"tool\"") THEN <<d>> ELSE <<>>)
            \o ParseToolCalls(Tail(matches))

(***************************************************************************)
(* LLMManager.generate_response and generate_with_tools.  An outcome of    *)
(* the llama model is [kind |-> "text", text |-> t] or, when the model     *)
(* call raises, [kind |-> "fault", text |-> <<>>].                         *)
(***************************************************************************)
ModelNotAvailable == <<"Model not available">>
GenerationError == <<"I encountered an error while processing your request.">>

\* llm_manager.py:59-73 (the model is loaded)
generate_response(out) ==
    IF out.kind = "fault" THEN GenerationError ELSE Strip(out.text)

\* llm_manager.py:83-134
generate_with_tools(loaded, out) ==
    IF ~loaded
    THEN [response |-> ModelNotAvailable, tool_calls |-> <<>>]
    ELSE LET response_text == generate_response(out)
             matches == FindAll(response_text)
         IN [response |-> Strip(ReplaceEach(response_text, matches)),
             tool_calls |-> ParseToolCalls(matches)]

(***************************************************************************)
(* Python values of the tool layer.                                        *)
(***************************************************************************)
JsonStringText ==
    ("\"tool\"" :> "tool") @@ ("\"parameters\"" :> "parameters")
    @@ ("\"get_current_time\"" :> "get_current_time")
    @@ ("\"calculator\"" :> "calculator") @@ ("\"frobnicate\"" :> "frobnicate")
    @@ ("\"2+2\"" :> "2+2") @@ ("\"x\"" :> "x")
    @@ ("\"echo\"" :> "echo") @@ ("\"msg\"" :> "msg") @@ ("\"hi\"" :> "hi")

RECURSIVE StrOf(_)
\* str(v) of a decoded JSON value, as text
StrOf(v) ==
    IF v[1] = "str" THEN <<JsonStringText[v[2]]>>
    ELSE IF v[1] = "null" THEN <<"None">>
    ELSE IF v[1] = "list" THEN <<"['x']">>
    ELSE IF v[1] = "dict" /\ Len(v) = 3
    THEN <<"{'", JsonStringText[v[2]], "': '">> \o StrOf(v[3]) \o <<"'}">>
    ELSE <<v[2]>>

EmptyDict == <<"dict", "">>

\* a dict of one key with a string value, as a scripted generator hands it
\* over: <<"dict", key, value>>
Dict1(key, value) == <<"dict", key, value>>

\* hash(v) raises TypeError for a list
Hashable(v) == v[1] # "list"

(***************************************************************************)
(* The tool registry: a dict in insertion order, name -> entry.            *)
(***************************************************************************)
\* `tool_name in self.tools` for a hashable tool_name
InTools(reg, v) ==
    v[1] = "str" /\ \E i \in 1..Len(reg) : reg[i].name = JsonStringText[v[2]]

ToolEntry(reg, v) ==
    reg[CHOOSE i \in 1..Len(reg) : reg[i].name = JsonStringText[v[2]]]

register_tool_FirstWins(reg, entry) ==
    IF \E i \in 1..Len(reg) : reg[i].name = entry.name
    THEN reg
    ELSE Append(reg, entry)

\* agent.py:73-77  self.tools[name] = {...}: an existing key keeps its place,
\* a new one goes last
register_tool(reg, entry) ==
    IF \E i \in 1..Len(reg) : reg[i].name = entry.name
    THEN [i \in 1..Len(reg) |-> IF reg[i].name = entry.name THEN entry ELSE reg[i]]
    ELSE Append(reg, entry)

DefaultRegistrations ==
    << [name |-> "web_search", description |-> "Search the web for information",
        func |-> "_web_search_tool"],
       [name |-> "calculator", description |-> "Perform mathematical calculations",
        func |-> "_calculator_tool"],
       [name |-> "get_current_time", description |-> "Get the current date and time",
        func |-> "_time_tool"],
       [name |-> "get_weather", description |-> "Get weather information for a location",
        func |-> "_weather_tool"],
       [name |-> "read_file", description |-> "Read contents of a file",
        func |-> "_read_file_tool"],
       [name |-> "write_file", description |-> "Write content to a file",
        func |-> "_write_file_tool"],
       [name |-> "get_system_info", description |-> "Get system information",
        func |-> "_system_info_tool"] >>

RECURSIVE RegisterAll(_, _)
RegisterAll(reg, entries) ==
    IF entries = <<>> THEN reg
    ELSE RegisterAll(register_tool(reg, Head(entries)), Tail(entries))

\* agent.py:16-18: the registry after __init__
DefaultTools == RegisterAll(<<>>, DefaultRegistrations)

\* handlers that take no argument besides self
NoArgHandlers == {"_time_tool", "_system_info_tool", "broken_clock"}

\* handlers a caller registers (slow_echo is told below): echo is `async def echo(msg): return msg`,
\* shout is `def shout(msg): return msg + "!"`, broken_clock is
\* `def broken_clock(): raise RuntimeError("boom")`
CoroutineHandlers == {"echo", "slow_echo"}

\* slow_echo is `async def slow_echo(msg): await asyncio.sleep(0.1); return msg`:
\* a coroutine handler that suspends, so the event loop runs other
\* coroutines until its wait is over
SuspendingHandlers == {"slow_echo"}

\* the keyword parameters a handler takes, all of them required
HandlerParams(func) ==
    CASE func \in NoArgHandlers -> {}
      [] func \in {"echo", "shout", "slow_echo"} -> {"msg"}
      [] func = "_web_search_tool" -> {"query"}
      [] func = "_calculator_tool" -> {"expression"}
      [] func = "_weather_tool" -> {"location"}
      [] func = "_read_file_tool" -> {"filename"}
      [] OTHER -> {"filename", "content"}

\* the keys of a dict of parameters
KeysOf(parameters) ==
    IF Len(parameters) = 3 THEN {JsonStringText[parameters[2]]} ELSE {}

\* the body of a handler called with the parameters it takes; of the
\* built-in handlers only those without parameters are ever called so
HandlerBody(func, parameters) ==
    CASE func = "_time_tool" ->
             [raised |-> FALSE, value |-> <<"Current date and time: ", "now">>]
      [] func = "_system_info_tool" ->
             [raised |-> FALSE, value |-> <<"{platform, cpu_count, memory}">>]
      [] func = "broken_clock" -> [raised |-> TRUE, value |-> <<"boom">>]
      [] func \in {"echo", "slow_echo"} ->
             [raised |-> FALSE, value |-> StrOf(parameters[3])]
      [] func = "shout" -> [raised |-> FALSE, value |-> StrOf(parameters[3]) \o <<"!">>]
      [] OTHER -> [raised |-> FALSE, value |-> <<func>> \o StrOf(parameters[3])]

\* agent.py:229-232  tool_func(**parameters), awaited for a coroutine
\* function: [raised |-> BOOLEAN, value |-> text]; both branches stand in the
\* try of line 225 and hand back what the handler returns or raises
CallHandler(func, parameters) ==
    IF parameters[1] # "dict"
    THEN [raised |-> TRUE, value |-> <<"argument after ** must be a mapping">>]
    ELSE IF ~(KeysOf(parameters) \subseteq HandlerParams(func))
    THEN [raised |-> TRUE, value |-> <<"got an unexpected keyword argument">>]
    ELSE IF ~(HandlerParams(func) \subseteq KeysOf(parameters))
    THEN [raised |-> TRUE, value |-> <<"missing required positional argument">>]
    ELSE IF func \in CoroutineHandlers
    THEN HandlerBody(func, parameters)
    ELSE HandlerBody(func, parameters)

execute_tool_UnknownRaises(reg, tool_call) ==
    LET tool_name == DictGet(tool_call, "\"tool\"", None)
        parameters == DictGet(tool_call, "\"parameters\"", EmptyDict)
    IN IF ~Hashable(tool_name)
       THEN [raised |-> TRUE, value |-> <<"unhashable type: 'list'">>]
       ELSE IF ~InTools(reg, tool_name)
       THEN [raised |-> TRUE, value |-> StrOf(tool_name)]
       ELSE LET r == CallHandler(ToolEntry(reg, tool_name).func, parameters)
            IN IF r.raised
               THEN [raised |-> FALSE, value |-> <<"Error executing tool: ">> \o r.value]
               ELSE r

execute_tool_NoParameters(reg, tool_call) ==
    LET tool_name == DictGet(tool_call, "\"tool\"", None)
    IN IF ~Hashable(tool_name)
       THEN [raised |-> TRUE, value |-> <<"unhashable type: 'list'">>]
       ELSE IF ~InTools(reg, tool_name)
       THEN [raised |-> FALSE,
             value |-> <<"Error: Unknown tool '">> \o StrOf(tool_name) \o <<"'">>]
       ELSE LET r == CallHandler(ToolEntry(reg, tool_name).func, EmptyDict)
            IN IF r.raised
               THEN [raised |-> FALSE, value |-> <<"Error executing tool: ">> \o r.value]
               ELSE r

execute_tool_HandlerRaises(reg, tool_call) ==
    LET tool_name == DictGet(tool_call, "\"tool\"", None)
        parameters == DictGet(tool_call, "\"parameters\"", EmptyDict)
    IN IF ~Hashable(tool_name)
       THEN [raised |-> TRUE, value |-> <<"unhashable type: 'list'">>]
       ELSE IF ~InTools(reg, tool_name)
       THEN [raised |-> FALSE,
             value |-> <<"Error: Unknown tool '">> \o StrOf(tool_name) \o <<"'">>]
       ELSE CallHandler(ToolEntry(reg, tool_name).func, parameters)

\* agent.py:217-238; raised is TRUE when the exception leaves _execute_tool
\* (the membership test of line 222 stands outside the try of line 225)
execute_tool(reg, tool_call) ==
    LET tool_name == DictGet(tool_call, "\"tool\"", None)
        parameters == DictGet(tool_call, "\"parameters\"", EmptyDict)
    IN IF ~Hashable(tool_name)
       THEN [raised |-> TRUE, value |-> <<"unhashable type: 'list'">>]
       ELSE IF ~InTools(reg, tool_name)
       THEN [raised |-> FALSE,
             value |-> <<"Error: Unknown tool '">> \o StrOf(tool_name) \o <<"'">>]
       ELSE LET r == CallHandler(ToolEntry(reg, tool_name).func, parameters)
            IN IF r.raised
               THEN [raised |-> FALSE, value |-> <<"Error executing tool: ">> \o r.value]
               ELSE r

(***************************************************************************)
(* The calculator tool, agent.py:247-271.  The text of an expression is    *)
(* given by its Python syntax tree; ast.parse fails on node "Invalid".     *)
(* The tool hands the tree to eval(compile(...)), so every node Python     *)
(* can evaluate is evaluated; the table `operators` is never consulted.    *)
(* A number is n/d with d > 0, float telling a Python float from an int.   *)
(***************************************************************************)
Num(n) == [node |-> "Num", op |-> "", val |-> n, args |-> <<>>]
BinOp(o, l, r) == [node |-> "BinOp", op |-> o, val |-> 0, args |-> <<l, r>>]
UnaryOp(o, e) == [node |-> "UnaryOp", op |-> o, val |-> 0, args |-> <<e>>]
Name(id) == [node |-> "Name", op |-> id, val |-> 0, args |-> <<>>]
Call(f) == [node |-> "Call", op |-> f, val |-> 0, args |-> <<>>]
Invalid == [node |-> "Invalid", op |-> "", val |-> 0, args |-> <<>>]

RECURSIVE Gcd(_, _)
Gcd(a, b) == IF b = 0 THEN a ELSE Gcd(b, a % b)

Abs(a) == IF a < 0 THEN -a ELSE a

\* the value n/d in lowest terms
Number(n, d, f) ==
    LET g == Gcd(Abs(n), d)
    IN [kind |-> "value", n |-> n \div g, d |-> d \div g, float |-> f, ran |-> FALSE]

Raised(k) == [kind |-> k, n |-> 0, d |-> 1, float |-> FALSE, ran |-> FALSE]

RECURSIVE Xor(_, _)
\* a ^ b on Python ints (two's complement of unbounded width)
Xor(a, b) ==
    IF a = 0 THEN b
    ELSE IF b = 0 THEN a
    ELSE IF a = -1 THEN -1 - b
    ELSE IF b = -1 THEN -1 - a
    ELSE 2 * Xor(a \div 2, b \div 2) + (((a % 2) + (b % 2)) % 2)

\* l op r on two numbers
Arith(o, l, r) ==
    LET f == l.float \/ r.float
    IN CASE o = "+" -> Number(l.n * r.d + r.n * l.d, l.d * r.d, f)
         [] o = "-" -> Number(l.n * r.d - r.n * l.d, l.d * r.d, f)
         [] o = "*" -> Number(l.n * r.n, l.d * r.d, f)
         [] o = "/" -> IF r.n = 0 THEN Raised("ZeroDivisionError")
                       ELSE IF r.n < 0 THEN Number(-(l.n * r.d), l.d * (-r.n), TRUE)
                       ELSE Number(l.n * r.d, l.d * r.n, TRUE)
         [] o = "^" -> IF f THEN Raised("TypeError") ELSE Number(Xor(l.n, r.n), 1, FALSE)
         [] OTHER -> Raised("TypeError")

RECURSIVE Eval(_)
\* eval(compile(ast.parse(expr, mode='eval'), '', 'eval')); ran tells that a
\* call inside the expression was executed
Eval(e) ==
    CASE e.node = "Invalid" -> Raised("SyntaxError")
      [] e.node = "Num" -> Number(e.val, 1, FALSE)
      [] e.node = "Name" -> Raised("NameError")
      [] e.node = "Call" ->
            IF e.op = "exit" THEN [Raised("SystemExit") EXCEPT !.ran = TRUE]
            ELSE [Raised("TypeError") EXCEPT !.kind = "object", !.ran = TRUE]
      [] e.node = "UnaryOp" ->
            LET v == Eval(e.args[1])
            IN IF v.kind = "value" THEN [v EXCEPT !.n = -v.n]
               ELSE IF v.kind = "object" THEN [Raised("TypeError") EXCEPT !.ran = v.ran]
               ELSE v
      [] e.node = "BinOp" ->
            LET l == Eval(e.args[1])
            IN IF l.kind \notin {"value", "object"} THEN l
               ELSE LET r == Eval(e.args[2])
                        both == l.ran \/ r.ran
                    IN IF r.kind \notin {"value", "object"} THEN [r EXCEPT !.ran = both]
                       ELSE IF l.kind = "object" \/ r.kind = "object"
                       THEN [Raised("TypeError") EXCEPT !.ran = both]
                       ELSE Arith(e.op, l, r)

\* agent.py:247-271: "Result: ..." or "Error calculating: ..."; SystemExit is
\* no Exception, so `except Exception` lets it through to the caller
calculator_tool(expression) ==
    LET v == Eval(expression)
    IN IF v.kind \in {"value", "object"} THEN [v EXCEPT !.kind = "Result"]
       ELSE IF v.kind = "SystemExit" THEN v
       ELSE [v EXCEPT !.kind = "Error calculating"]

(***************************************************************************)
(* Inputs: the texts the llama model may produce in a round, and the       *)
(* arguments of execute_task.                                              *)
(***************************************************************************)
TimeDirective == <<"{", "\"tool\"", ":", "\"get_current_time\"", "}">>
UnknownDirective == <<"{", "\"tool\"", ":", "\"frobnicate\"", "}">>
CalcDirective ==
    <<"{", "\"tool\"", ":", "\"calculator\"", ",", "\"parameters\"", ":", "\"2+2\"", "}">>
ListDirective == <<"{", "\"tool\"", ":", "[\"x\"]", "}">>

ReplyTexts ==
    { <<"o", "k">>,
      <<"T", "a", "s", "k", " ", "C", "o", "m", "p", "l", "e", "t", "e", "d">>,
      <<"o", "k", " ">> \o UnknownDirective \o CalcDirective \o TimeDirective,
      <<"D", "O", "N", "E", " ">> \o TimeDirective \o UnknownDirective,
      <<"u", "n", "d", "o", " ">> \o ListDirective,
      <<"d", "o", "n", "e", " ">> \o TimeDirective \o ListDirective \o UnknownDirective }

(***************************************************************************)
(* Reply texts for the tool-call parser alone: fragments the model may     *)
(* write, joined by blanks.                                                *)
(***************************************************************************)
\* {"tool": oops}: matched by the pattern, not JSON
UndecodableFragment == <<"{", "\"tool\"", ":", "oops", "}">>
\* {"x": "tool"}: matched by the pattern, JSON, no key tool
NoToolKeyFragment == <<"{", "\"x\"", ":", "\"tool\"", "}">>
\* {"tool": "echo", "parameters": {"msg": "hi"}}: the format of the system
\* prompt, llm_manager.py:95-96
NestedDirective ==
    <<"{", "\"tool\"", ":", "\"echo\"", ",", "\"parameters\"", ":",
      "{", "\"msg\"", ":", "\"hi\"", "}", "}">>
\* {"tool": "echo", "parameters": {incomplete
UnterminatedFragment ==
    <<"{", "\"tool\"", ":", "\"echo\"", ",", "\"parameters\"", ":", "{", "incomplete">>

Fragments ==
    { TimeDirective, UndecodableFragment, NoToolKeyFragment, NestedDirective,
      UnterminatedFragment, <<"o", "k">> }

FragmentLists == UNION { [1..n -> Fragments] : n \in 1..MaxFragments }

\* the reply text of a list of fragments
ReplyOf(fragments) == Join(<<" ">>, fragments)

NoParse == [fragments |-> <<>>, out |-> [response |-> <<>>, tool_calls |-> <<>>]]

\* what the call self.llm.generate_with_tools(...) of agent.py:134 can do: the
\* llama model answers with a text, the llama model raises inside
\* generate_response ("fault"), or the call itself raises ("raise": the
\* generator is the object handed to AgentExecutor.__init__, and the try of
\* agent.py:126 is there for the case that it throws)
LlmOutcomes ==
    [kind : {"text"}, text : ReplyTexts, calls : {<<>>}]
    \cup {[kind |-> "fault", text |-> <<>>, calls |-> <<>>],
          [kind |-> "raise", text |-> <<>>, calls |-> <<>>]}

\* what self.llm.generate_with_tools(...) hands back to agent.py:134: the
\* dict built by LLMManager, or, for a scripted generator (kind "scripted",
\* an object with the same method handed to AgentExecutor.__init__), the
\* reply text and the tool calls of the script as they are
GeneratorReply(loaded, out) ==
    IF out.kind = "scripted"
    THEN [response |-> out.text, tool_calls |-> out.calls]
    ELSE generate_with_tools(loaded, out)

\* how the generator call went, for the record of the round
LlmKind(loaded, out) ==
    IF out.kind = "text" /\ ~loaded THEN "unavailable"
    ELSE IF out.kind = "fault" /\ ~loaded THEN "unavailable"
    ELSE out.kind

NoOverride == <<>>
MaxIterationsArgs == {NoOverride, <<-1>>, <<0>>, <<1>>, <<2>>}
ContextArgs == {"None", "json", "unserializable"}
TaskArgs == { <<"t", "a", "s", "k">> }
LanguageArgs == {"en"}

\* agent.py:99   max_iterations or settings.max_agent_iterations
EffectiveMaxIter(max_iterations) ==
    IF max_iterations = NoOverride \/ max_iterations[1] = 0
    THEN max_agent_iterations
    ELSE max_iterations[1]

\* agent.py:123  while iterations < max_iter and not task_completed
LoopContinues(its, mi, done) == its < mi /\ ~done

AfterToolCalls_Always(done, ncalls) == TRUE

AfterToolCalls_Never(done, ncalls) == done

\* agent.py:148-165: the flag after the tool-call branch of a round
AfterToolCalls(done, ncalls) == IF ncalls = 0 THEN TRUE ELSE done

\* agent.py:168-170
AfterKeywordCheck(done, text) == IF CompletionKeywordFound(text) THEN TRUE ELSE done

AfterExcept_NoBreak == "loop"

\* agent.py:172-178: where the except clause leaves the loop (break)
AfterExcept == "exit"

Message(r, c) == [role |-> r, content |-> c]

\* agent.py:110-121
InitialConversation(task, context) ==
    (IF context # "None"
     THEN <<Message("system", <<"Context: ", "{\"k\": 1}">>)>> ELSE <<>>)
    \o <<Message("user", task)>>

\* agent.py:203-213: the label of a role, <<>> for a role that is not rendered
RoleLabel(role) ==
    CASE role = "user" -> <<"User: ">>
      [] role = "assistant" -> <<"Assistant: ">>
      [] role = "tool" -> <<"Tool Result: ">>
      [] role = "system" -> <<"System: ">>
      [] OTHER -> <<>>

RECURSIVE FormatMessages(_)
FormatMessages(conv) ==
    IF conv = <<>> THEN <<>>
    ELSE IF RoleLabel(Head(conv).role) = <<>> THEN FormatMessages(Tail(conv))
    ELSE <<RoleLabel(Head(conv).role) \o Head(conv).content>> \o FormatMessages(Tail(conv))

\* agent.py:200-215
format_conversation(conv) == Join(<<"\n\n">>, FormatMessages(conv))

tool_list_WithHandlers(reg) == reg

\* agent.py:128-131: the catalog built from self.tools.items()
tool_list(reg) ==
    [i \in 1..Len(reg) |-> [name |-> reg[i].name, description |-> reg[i].description]]

NextToolCall_Last(calls_left) == calls_left[Len(calls_left)]

\* agent.py:149  for tool_call in response["tool_calls"]: the call of this turn
NextToolCall(calls_left) == Head(calls_left)

\* agent.py:153-156
ToolMessage(tool_call, tool_result) ==
    Message("tool", <<"Tool '">> \o StrOf(DictGet(tool_call, "\"tool\"", None))
                    \o <<"' result: ">> \o tool_result)

\* agent.py:158-162
ToolResult(tool_call, tool_result) ==
    [tool |-> DictGet(tool_call, "\"tool\"", None),
     parameters |-> DictGet(tool_call, "\"parameters\"", None),
     result |-> tool_result]

NoResult ==
    [completed |-> FALSE, response |-> <<>>, iterations |-> 0,
     tool_results |-> <<>>, conversation |-> <<>>]

\* what is recorded about the round a call is in or was last in: how the
\* generator call went (llm), how the round went (kind), the reply, its tool
\* calls and their number, the prompt and the tool catalog the generator was
\* given, and the state
\* of the call when the round began
NoRound ==
    [kind |-> "none", llm |-> "none", ncalls |-> 0, content |-> <<>>,
     tool_calls |-> <<>>, prompt |-> <<>>, catalog |-> <<>>, conv0 |-> <<>>,
     results0 |-> <<>>, gen |-> 0, runs |-> 0, awaited |-> "",
     tools0 |-> <<>>]

NoArgs ==
    [task |-> <<>>, context |-> "None", max_iterations |-> NoOverride, language |-> "en"]

NoCalc == [expression |-> Invalid, out |-> Raised("none")]

(***************************************************************************)
(* The history accessors.  A list is an object: a caller that is handed    *)
(* self.execution_history holds a reference to the list the executor       *)
(* appends to and clears.  held is the reference a caller was handed last  *)
(* and the content the list had then, with a mark once the caller has     *)
(* changed what it was handed; gets is the content handed over by   *)
(* the last two calls of get_execution_history that no append, clear or    *)
(* change of the list separates.                                           *)
(***************************************************************************)
HistoryList == "self.execution_history"

NoReference == [ref |-> "none", at |-> <<>>, popped |-> FALSE]

\* agent.py:321  return self.execution_history: the list itself
get_execution_history == HistoryList

HistoryAfterGet_Drained(history) == <<>>

\* agent.py:319-321: the call writes nothing
HistoryAfterGet(history) == history

\* agent.py:325  self.execution_history.clear(): the list is emptied in place
clear_history(history) == <<>>

Window(last, value) ==
    IF Len(last) < 2 THEN Append(last, value) ELSE <<last[2], value>>

(***************************************************************************)
(* Registrations a caller makes after construction (agent.py:71-78) and    *)
(* the replies of a scripted generator, an object with the method          *)
(* generate_with_tools that hands back a reply and its tool calls.         *)
(***************************************************************************)
RegistrationArgs ==
    { [name |-> "echo", description |-> "Echo", func |-> "echo"],
      [name |-> "echo", description |-> "Shout", func |-> "shout"],
      [name |-> "get_current_time", description |-> "Broken clock",
       func |-> "broken_clock"] }

EchoCall ==
    << <<"\"tool\"", <<"str", "\"echo\"">> >>,
       <<"\"parameters\"", Dict1("\"msg\"", <<"str", "\"hi\"">>)>> >>

EchoWrongKeyCall ==
    << <<"\"tool\"", <<"str", "\"echo\"">> >>,
       <<"\"parameters\"", Dict1("\"x\"", <<"str", "\"hi\"">>)>> >>

ClockCall == << <<"\"tool\"", <<"str", "\"get_current_time\"">> >> >>

ScriptedOutcomes ==
    { [kind |-> "scripted", text |-> <<"o", "k">>, calls |-> <<EchoCall>>],
      [kind |-> "scripted", text |-> <<"o", "k">>,
       calls |-> <<ClockCall, EchoWrongKeyCall, EchoCall>>],
      [kind |-> "scripted", text |-> <<"a", "l", "l", " ", "s", "e", "t">>,
       calls |-> <<>>] }

(***************************************************************************)
(* Calls of execute_task that overlap on one event loop (main.py:278 awaits *)
(* execute_task of the one executor of main.py:45 in every request).  The   *)
(* generator of these runs is scripted and answers each call with the      *)
(* number of that call: task n of call n, and n as the argument of every    *)
(* tool call it asks for.  The handler slow_echo is a coroutine that waits  *)
(* before it returns str(msg).                                             *)
(***************************************************************************)
ConcTask(t) == <<"t", "a", "s", "k", " ", ToString(t)>>

ConcCall(t) ==
    << <<"\"tool\"", <<"str", "\"echo\"">> >>,
       <<"\"parameters\"", Dict1("\"msg\"", <<"int", ToString(t)>>)>> >>

ConcOutcomes(t) ==
    { [kind |-> "scripted", text |-> <<"o", "k", " ", ToString(t)>>,
       calls |-> <<ConcCall(t), ConcCall(t)>>],
      [kind |-> "scripted", text |-> <<"a", "l", "l", " ", "s", "e", "t", " ", ToString(t)>>,
       calls |-> <<>>] }

\* the registrations made during these runs, in the order they are made
ConcRegistrations ==
    << [name |-> "echo", description |-> "Slow echo", func |-> "slow_echo"],
       [name |-> "echo", description |-> "Shout", func |-> "shout"],
       [name |-> "frobnicate", description |-> "Frobnicate", func |-> "shout"],
       [name |-> "echo", description |-> "Slow echo", func |-> "slow_echo"] >>

CalcOps == {"+", "-", "*", "/", "^"}

CalcLeaves ==
    {Num(n) : n \in 0..MaxNum} \cup {Name("x"), Call("getcwd"), Call("exit")}

\* the expressions handed to the calculator: every tree of one operator over
\* the leaves, and some deeper or unparsable ones
CalcInputs ==
    CalcLeaves
    \cup {UnaryOp("-", e) : e \in CalcLeaves}
    \cup {BinOp(o, l, r) : o \in CalcOps, l \in CalcLeaves, r \in CalcLeaves}
    \cup { Invalid,
           BinOp("+", Num(2), BinOp("*", Num(2), Num(3))),
           BinOp("/", Num(7), UnaryOp("-", Num(2))),
           BinOp("^", UnaryOp("-", Num(6)), Num(3)),
           BinOp("+", Num(1), UnaryOp("-", Call("getcwd"))) }

(***************************************************************************)
(* State.  model_loaded is LLMManager's flag; tools and execution_history  *)
(* are AgentExecutor's fields; the variables indexed by a task are the     *)
(* locals of one call of execute_task and the place it has reached (pc).   *)
(* outcome is what the caller got; calls, genCalls, toolRuns, lastRound    *)
(* and recordAt (the place in the history of the record of a call, or 0)   *)
(* record what happened, for the properties.                               *)
(***************************************************************************)
VARIABLES model_loaded, tools, execution_history,
          pc, args, max_iter, iterations, task_completed, results,
          conversation, response, pending, outcome,
          calls, genCalls, toolRuns, lastRound, recordAt,
          calc, parse, registered, held, gets

vars == <<model_loaded, tools, execution_history,
          pc, args, max_iter, iterations, task_completed, results,
          conversation, response, pending, outcome,
          calls, genCalls, toolRuns, lastRound, recordAt, calc, parse,
          registered, held, gets>>

shared == <<model_loaded, tools, execution_history>>

\* what the callers of the registry and of the history accessors hold
api == <<registered, held, gets>>

Init ==
    /\ model_loaded \in BOOLEAN
    /\ tools = DefaultTools
    /\ execution_history = <<>>
    /\ pc = [t \in Tasks |-> "idle"]
    /\ args = [t \in Tasks |-> NoArgs]
    /\ max_iter = [t \in Tasks |-> 0]
    /\ iterations = [t \in Tasks |-> 0]
    /\ task_completed = [t \in Tasks |-> FALSE]
    /\ results = [t \in Tasks |-> <<>>]
    /\ conversation = [t \in Tasks |-> <<>>]
    /\ response = [t \in Tasks |-> <<>>]
    /\ pending = [t \in Tasks |-> <<>>]
    /\ outcome = [t \in Tasks |-> [kind |-> "none", result |-> NoResult]]
    /\ calls = 0
    /\ genCalls = [t \in Tasks |-> 0]
    /\ toolRuns = [t \in Tasks |-> 0]
    /\ lastRound = [t \in Tasks |-> NoRound]
    /\ recordAt = [t \in Tasks |-> 0]
    /\ calc = NoCalc
    /\ parse = NoParse
    /\ registered = <<>>
    /\ held = NoReference
    /\ gets = <<>>

\* agent.py:99-121: the call of execute_task up to the loop; json.dumps of
\* line 115 raises TypeError on a context that is not JSON-serializable, and
\* no try surrounds it
Begin(t, task, context, max_iterations, language) ==
    /\ pc[t] \in {"idle", "done", "raised"}
    /\ \A u \in Tasks : pc[u] \notin RunningStates
    /\ t = (calls % NumTasks) + 1
    /\ calls' = calls + 1
    /\ args' = [args EXCEPT ![t] = [task |-> task, context |-> context,
                                    max_iterations |-> max_iterations,
                                    language |-> language]]
    /\ max_iter' = [max_iter EXCEPT ![t] = EffectiveMaxIter(max_iterations)]
    /\ iterations' = [iterations EXCEPT ![t] = 0]
    /\ task_completed' = [task_completed EXCEPT ![t] = FALSE]
    /\ results' = [results EXCEPT ![t] = <<>>]
    /\ response' = [response EXCEPT ![t] = <<>>]
    /\ pending' = [pending EXCEPT ![t] = <<>>]
    /\ genCalls' = [genCalls EXCEPT ![t] = 0]
    /\ toolRuns' = [toolRuns EXCEPT ![t] = 0]
    /\ lastRound' = [lastRound EXCEPT ![t] = NoRound]
    /\ recordAt' = [recordAt EXCEPT ![t] = 0]
    /\ IF context = "unserializable"
       THEN /\ conversation' = [conversation EXCEPT ![t] = <<>>]
            /\ pc' = [pc EXCEPT ![t] = "raised"]
            /\ outcome' = [outcome EXCEPT ![t] = [kind |-> "raised", result |-> NoResult]]
       ELSE /\ conversation' = [conversation EXCEPT ![t] = InitialConversation(task, context)]
            /\ pc' = [pc EXCEPT ![t] = "loop"]
            /\ outcome' = [outcome EXCEPT ![t] = [kind |-> "none", result |-> NoResult]]
    /\ UNCHANGED <<shared, calc, parse, api>>

\* agent.py:123-148 and, for a reply without tool calls, 163-170; for a
\* generator call that raises, 172-178
Round(t, out) ==
    /\ pc[t] \in {"loop", "generating"}
    /\ LoopContinues(iterations[t], max_iter[t], task_completed[t])
    /\ iterations' = [iterations EXCEPT ![t] = @ + 1]
    /\ genCalls' = [genCalls EXCEPT ![t] = @ + 1]
    /\ IF out.kind = "raise"
       THEN /\ conversation' = [conversation EXCEPT ![t] =
                                   Append(@, Message("error", <<"generator raised">>))]
            /\ pc' = [pc EXCEPT ![t] = AfterExcept]
            /\ lastRound' = [lastRound EXCEPT ![t] =
                   [kind |-> "genraise", llm |-> "raise", ncalls |-> 0, content |-> <<>>,
                    tool_calls |-> <<>>,
                    prompt |-> format_conversation(conversation[t]),
                    catalog |-> tool_list(tools),
                    conv0 |-> conversation[t], results0 |-> results[t],
                    gen |-> genCalls[t] + 1, runs |-> toolRuns[t],
                    awaited |-> "", tools0 |-> tools]]
            /\ UNCHANGED <<response, pending, task_completed>>
       ELSE LET r == GeneratorReply(model_loaded, out)
            IN /\ conversation' = [conversation EXCEPT ![t] =
                                      Append(@, Message("assistant", r.response))]
               /\ response' = [response EXCEPT ![t] = r.response]
               /\ pending' = [pending EXCEPT ![t] = r.tool_calls]
               /\ lastRound' = [lastRound EXCEPT ![t] =
                      [kind |-> "reply",
                       llm |-> LlmKind(model_loaded, out),
                       ncalls |-> Len(r.tool_calls),
                       content |-> r.response,
                       tool_calls |-> r.tool_calls,
                       prompt |-> format_conversation(conversation[t]),
                       catalog |-> tool_list(tools),
                       conv0 |-> conversation[t], results0 |-> results[t],
                       gen |-> genCalls[t] + 1, runs |-> toolRuns[t],
                    awaited |-> "", tools0 |-> tools]]
               /\ IF r.tool_calls = <<>>
                  THEN /\ task_completed' = [task_completed EXCEPT ![t] =
                              AfterKeywordCheck(AfterToolCalls(@, 0), r.response)]
                       /\ pc' = [pc EXCEPT ![t] = "loop"]
                  ELSE /\ pc' = [pc EXCEPT ![t] = "tools"]
                       /\ UNCHANGED task_completed
    /\ UNCHANGED <<shared, args, max_iter, results, outcome, calls, toolRuns,
                   recordAt, calc, parse, api>>

\* the handler a tool call is dispatched to, agent.py:226, "" when the call
\* names no registered tool
HandlerOf(reg, tool_call) ==
    LET tool_name == DictGet(tool_call, "\"tool\"", None)
    IN IF Hashable(tool_name) /\ InTools(reg, tool_name)
       THEN ToolEntry(reg, tool_name).func ELSE ""

\* agent.py:229-230: the await of a coroutine handler suspends the call when
\* the handler itself waits; a call whose arguments do not fit the handler
\* raises before any wait
WillSuspend(reg, tool_call) ==
    /\ HandlerOf(reg, tool_call) \in SuspendingHandlers
    /\ ~CallHandler(HandlerOf(reg, tool_call),
                    DictGet(tool_call, "\"parameters\"", EmptyDict)).raised

GenerateBegin_Eager(t) ==
    /\ pc[t] \in {"loop", "tools"}
    /\ LoopContinues(iterations[t], max_iter[t], task_completed[t])
    /\ pc' = [pc EXCEPT ![t] = "generating"]
    /\ UNCHANGED <<shared, args, max_iter, iterations, task_completed, results,
                   conversation, response, pending, outcome, calls, genCalls,
                   toolRuns, lastRound, recordAt, calc, parse, api>>

\* agent.py:124-134: the loop test passed, the call is inside the try and
\* has entered llm_manager.generate_with_tools, a plain function called
\* without await: the event loop is not given back until it returns
GenerateBegin(t) ==
    /\ pc[t] = "loop"
    /\ LoopContinues(iterations[t], max_iter[t], task_completed[t])
    /\ pc' = [pc EXCEPT ![t] = "generating"]
    /\ UNCHANGED <<shared, args, max_iter, iterations, task_completed, results,
                   conversation, response, pending, outcome, calls, genCalls,
                   toolRuns, lastRound, recordAt, calc, parse, api>>

DispatchRegistry_AtCatalog(t) == lastRound[t].tools0

\* agent.py:222 and 226: _execute_tool looks the name up in self.tools, the
\* registry as it is when the tool call is made
DispatchRegistry(t) == tools

\* agent.py:149-162 and 172-178: what the loop does with the outcome r of
\* the tool call it was in; after the last call of the round, 167-170
ToolCallDone(t, tool_call, r) ==
    /\ toolRuns' = [toolRuns EXCEPT ![t] = @ + 1]
    /\ IF r.raised
       THEN /\ conversation' = [conversation EXCEPT ![t] =
                                   Append(@, Message("error", r.value))]
            /\ pc' = [pc EXCEPT ![t] = AfterExcept]
            /\ pending' = [pending EXCEPT ![t] = <<>>]
            /\ lastRound' = [lastRound EXCEPT ![t].kind = "toolraise",
                                              ![t].awaited = ""]
            /\ UNCHANGED <<results, task_completed>>
       ELSE /\ conversation' = [conversation EXCEPT ![t] =
                                   Append(@, ToolMessage(tool_call, r.value))]
            /\ results' = [results EXCEPT ![t] =
                              Append(@, ToolResult(tool_call, r.value))]
            /\ pending' = [pending EXCEPT ![t] = Tail(@)]
            /\ lastRound' = [lastRound EXCEPT ![t].awaited = ""]
            /\ IF Tail(pending[t]) = <<>>
               THEN /\ task_completed' = [task_completed EXCEPT ![t] =
                           AfterKeywordCheck(
                               AfterToolCalls(@, lastRound[t].ncalls), response[t])]
                    /\ pc' = [pc EXCEPT ![t] = "loop"]
               ELSE /\ pc' = [pc EXCEPT ![t] = "tools"]
                    /\ UNCHANGED task_completed
    /\ UNCHANGED <<shared, args, max_iter, iterations, response, outcome, calls,
                   genCalls, recordAt, calc, parse, api>>

\* agent.py:150 and 217-232: the call is inside a handler that does not
\* wait (a plain function at line 232, or a coroutine that never suspends)
ToolBegin(t) ==
    /\ pc[t] = "tools"
    /\ ~WillSuspend(DispatchRegistry(t), NextToolCall(pending[t]))
    /\ pc' = [pc EXCEPT ![t] = "calling"]
    /\ UNCHANGED <<shared, args, max_iter, iterations, task_completed, results,
                   conversation, response, pending, outcome, calls, genCalls,
                   toolRuns, lastRound, recordAt, calc, parse, api>>

\* agent.py:149-162, one turn of the for loop with a handler that does not
\* wait; for a tool call that raises out of _execute_tool, 172-178
ExecTool(t) ==
    /\ pc[t] \in {"tools", "calling"}
    /\ ~WillSuspend(DispatchRegistry(t), NextToolCall(pending[t]))
    /\ ToolCallDone(t, NextToolCall(pending[t]),
                    execute_tool(DispatchRegistry(t), NextToolCall(pending[t])))

\* agent.py:150, 226 and 229-230: the handler is read from the registry,
\* called, and waits; the event loop goes to whoever is ready
AwaitTool(t) ==
    /\ pc[t] = "tools"
    /\ WillSuspend(DispatchRegistry(t), NextToolCall(pending[t]))
    /\ pc' = [pc EXCEPT ![t] = "awaiting"]
    /\ lastRound' = [lastRound EXCEPT ![t].awaited =
                        HandlerOf(DispatchRegistry(t), NextToolCall(pending[t]))]
    /\ UNCHANGED <<shared, args, max_iter, iterations, task_completed, results,
                   conversation, response, pending, outcome, calls, genCalls,
                   toolRuns, recordAt, calc, parse, api>>

\* agent.py:230 and 153-162: the awaited handler, the one read at line 226
\* before the wait, returns; the event loop resumes the call once no other
\* coroutine is running
ResumeTool(t) ==
    /\ pc[t] = "awaiting"
    /\ \A u \in Tasks : pc[u] \notin RunningStates
    /\ ToolCallDone(t, NextToolCall(pending[t]),
                    CallHandler(lastRound[t].awaited,
                                DictGet(NextToolCall(pending[t]),
                                        "\"parameters\"", EmptyDict)))

ExecutionRecord_OfFirstCall(t) ==
    [task |-> args[1].task, timestamp |-> "now", iterations |-> iterations[1],
     completed |-> task_completed[1], results |-> results[1],
     conversation |-> conversation[1], language |-> args[1].language]

\* agent.py:180-190
ExecutionRecord(t) ==
    [task |-> args[t].task, timestamp |-> "now", iterations |-> iterations[t],
     completed |-> task_completed[t], results |-> results[t],
     conversation |-> conversation[t], language |-> args[t].language]

Result_FirstMessage(t) ==
    [completed |-> task_completed[t],
     response |-> IF conversation[t] # <<>>
                  THEN conversation[t][1].content ELSE <<>>,
     iterations |-> iterations[t],
     tool_results |-> results[t],
     conversation |-> conversation[t]]

\* agent.py:192-198
Result(t) ==
    [completed |-> task_completed[t],
     response |-> IF conversation[t] # <<>>
                  THEN conversation[t][Len(conversation[t])].content ELSE <<>>,
     iterations |-> iterations[t],
     tool_results |-> results[t],
     conversation |-> conversation[t]]

\* agent.py:180-198, reached when the while condition fails or after break
Finish(t) ==
    /\ \/ pc[t] = "exit"
       \/ pc[t] = "loop" /\ ~LoopContinues(iterations[t], max_iter[t], task_completed[t])
    /\ execution_history' = Append(execution_history, ExecutionRecord(t))
    /\ outcome' = [outcome EXCEPT ![t] = [kind |-> "returned", result |-> Result(t)]]
    /\ pc' = [pc EXCEPT ![t] = "done"]
    /\ recordAt' = [recordAt EXCEPT ![t] = Len(execution_history) + 1]
    /\ gets' = <<>>
    /\ UNCHANGED <<model_loaded, tools, args, max_iter, iterations, task_completed,
                   results, conversation, response, pending, calls, genCalls,
                   toolRuns, lastRound, calc, parse, registered, held>>

\* a direct call of AgentExecutor._calculator_tool (agent.py:247)
CalculatorCall(expression) ==
    /\ calc' = [expression |-> expression, out |-> calculator_tool(expression)]
    /\ UNCHANGED <<shared, pc, args, max_iter, iterations, task_completed, results,
                   conversation, response, pending, outcome, calls, genCalls,
                   toolRuns, lastRound, recordAt, api, parse>>

\* a direct call of LLMManager.generate_with_tools (llm_manager.py:75) with
\* the model loaded, the model answering with the fragments, blanks between;
\* the function keeps no state, so one call from the start shows them all
ParseReply(fragments) ==
    /\ parse = NoParse
    /\ parse' = [fragments |-> fragments,
                 out |-> generate_with_tools(TRUE, [kind |-> "text",
                                                    text |-> ReplyOf(fragments),
                                                    calls |-> <<>>])]
    /\ UNCHANGED <<shared, pc, args, max_iter, iterations, task_completed, results,
                   conversation, response, pending, outcome, calls, genCalls,
                   toolRuns, lastRound, recordAt, api, calc>>

\* no call of execute_task is between its first and its last statement: the
\* generator and the handlers are called without a suspension, so no other
\* coroutine of the event loop runs then
Quiescent == \A u \in Tasks : pc[u] \notin RunningStates

\* the content of the list a reference points to
Deref(ref) == IF ref = HistoryList THEN execution_history ELSE <<>>

\* agent.py:71-78
RegisterTool(name, description, func) ==
    /\ Quiescent
    /\ Len(registered) < MaxRegistrations
    /\ tools' = register_tool(tools, [name |-> name, description |-> description,
                                      func |-> func])
    /\ registered' = Append(registered, [name |-> name, description |-> description,
                                         func |-> func])
    /\ UNCHANGED <<model_loaded, execution_history, pc, args, max_iter, iterations,
                   task_completed, results, conversation, response, pending,
                   outcome, calls, genCalls, toolRuns, lastRound, recordAt, calc, parse,
                   held, gets>>

\* agent.py:319-321
GetHistory ==
    /\ Quiescent
    /\ held' = [ref |-> get_execution_history, at |-> Deref(get_execution_history),
                popped |-> FALSE]
    /\ gets' = Window(gets, Deref(get_execution_history))
    /\ execution_history' = HistoryAfterGet(execution_history)
    /\ UNCHANGED <<model_loaded, tools, pc, args, max_iter, iterations,
                   task_completed, results, conversation, response, pending,
                   outcome, calls, genCalls, toolRuns, lastRound, recordAt, calc, parse,
                   registered>>

\* agent.py:323-325
ClearHistory ==
    /\ Quiescent
    /\ execution_history' = clear_history(execution_history)
    /\ gets' = <<>>
    /\ recordAt' = [t \in Tasks |-> 0]
    /\ UNCHANGED <<model_loaded, tools, pc, args, max_iter, iterations,
                   task_completed, results, conversation, response, pending,
                   outcome, calls, genCalls, toolRuns, lastRound, calc, parse,
                   registered, held>>

\* the caller of get_execution_history (agent.py:321) removes the last
\* element of the list it was handed, list.pop()
PopReturned ==
    /\ Quiescent
    /\ held.ref # "none"
    /\ Deref(held.ref) # <<>>
    /\ execution_history' = IF held.ref = HistoryList
                            THEN SubSeq(execution_history, 1, Len(execution_history) - 1)
                            ELSE execution_history
    /\ held' = [held EXCEPT !.popped = TRUE]
    /\ gets' = <<>>
    /\ recordAt' = [t \in Tasks |->
                       IF held.ref = HistoryList /\ recordAt[t] = Len(execution_history)
                       THEN 0 ELSE recordAt[t]]
    /\ UNCHANGED <<model_loaded, tools, pc, args, max_iter, iterations,
                   task_completed, results, conversation, response, pending,
                   outcome, calls, genCalls, toolRuns, lastRound, calc, parse,
                   registered>>

\* the message a caller adds to a conversation it was handed
MoreMessage == Message("user", <<"m", "o", "r", "e">>)

\* agent.py:180-198: the record appended at line 190 and the dict returned
\* at line 192 hold the same two list objects, results and conversation;
\* nothing copies them.  A change the caller makes to one of the lists of
\* the returned dict is a change of the list the record holds, as long as
\* the record is in the history.
\* the caller runs result["conversation"].append(...)
ChangeReturnedConversation(t) ==
    /\ Quiescent
    /\ pc[t] = "done" /\ outcome[t].kind = "returned"
    /\ outcome[t].result.conversation[Len(outcome[t].result.conversation)] # MoreMessage
    /\ outcome' = [outcome EXCEPT ![t].result.conversation = Append(@, MoreMessage)]
    /\ conversation' = [conversation EXCEPT ![t] = Append(@, MoreMessage)]
    /\ execution_history' =
          IF recordAt[t] \in 1..Len(execution_history)
          THEN [execution_history EXCEPT ![recordAt[t]].conversation =
                                            Append(@, MoreMessage)]
          ELSE execution_history
    /\ gets' = <<>>
    /\ UNCHANGED <<model_loaded, tools, pc, args, max_iter, iterations,
                   task_completed, results, response, pending, calls, genCalls,
                   toolRuns, lastRound, recordAt, calc, parse, registered, held>>

\* the caller runs result["tool_results"].clear()
ClearReturnedResults(t) ==
    /\ Quiescent
    /\ pc[t] = "done" /\ outcome[t].kind = "returned"
    /\ outcome[t].result.tool_results # <<>>
    /\ outcome' = [outcome EXCEPT ![t].result.tool_results = <<>>]
    /\ results' = [results EXCEPT ![t] = <<>>]
    /\ execution_history' =
          IF recordAt[t] \in 1..Len(execution_history)
          THEN [execution_history EXCEPT ![recordAt[t]].results = <<>>]
          ELSE execution_history
    /\ gets' = <<>>
    /\ UNCHANGED <<model_loaded, tools, pc, args, max_iter, iterations,
                   task_completed, conversation, response, pending, calls, genCalls,
                   toolRuns, lastRound, recordAt, calc, parse, registered, held>>

BeginStep ==
    /\ calls < MaxCalls
    /\ \E t \in Tasks, task \in TaskArgs, context \in ContextArgs,
       mi \in MaxIterationsArgs, language \in LanguageArgs :
        Begin(t, task, context, mi, language)
RoundStep == \E t \in Tasks, out \in LlmOutcomes : Round(t, out)
ExecToolStep == \E t \in Tasks : ExecTool(t)
FinishStep == \E t \in Tasks : Finish(t)
CalculatorStep == \E e \in CalcInputs : CalculatorCall(e)

Next ==
    \/ BeginStep
    \/ RoundStep
    \/ ExecToolStep
    \/ FinishStep

Spec == Init /\ [][Next]_vars

\* the event loop keeps running a call that is not suspended, and every
\* generator call and every tool invocation returns or fails in the end
FairSpec ==
    /\ Spec
    /\ WF_vars(RoundStep)
    /\ WF_vars(ExecToolStep)
    /\ WF_vars(FinishStep)

\* the calculator tool on its own, applied to every input
RegisterStep == \E r \in RegistrationArgs : RegisterTool(r.name, r.description, r.func)
ScriptedBeginStep ==
    /\ calls < MaxCalls
    /\ \E t \in Tasks, task \in TaskArgs : Begin(t, task, "None", <<2>>, "en")
ScriptedRoundStep == \E t \in Tasks, out \in ScriptedOutcomes : Round(t, out)

\* an executor with a scripted generator, its registry open to registrations
RegistryNext ==
    \/ RegisterStep
    \/ ScriptedBeginStep
    \/ ScriptedRoundStep
    \/ ExecToolStep
    \/ FinishStep

RegistrySpec == Init /\ [][RegistryNext]_vars

\* an executor with a scripted generator, its history open to the accessors
ChangeConversationStep == \E t \in Tasks : ChangeReturnedConversation(t)
ClearResultsStep == \E t \in Tasks : ClearReturnedResults(t)

HistoryNext ==
    \/ ScriptedBeginStep
    \/ ScriptedRoundStep
    \/ ExecToolStep
    \/ FinishStep
    \/ GetHistory
    \/ ClearHistory
    \/ PopReturned
    \/ ChangeConversationStep
    \/ ClearResultsStep

HistorySpec == Init /\ [][HistoryNext]_vars

ParseStep == \E fragments \in FragmentLists : ParseReply(fragments)

ParseNext == ParseStep

ParseSpec == Init /\ [][ParseNext]_vars

CalcNext == CalculatorStep

CalcSpec == Init /\ [][CalcNext]_vars

(***************************************************************************)
(* Properties.                                                             *)
(***************************************************************************)
Returned(t) == outcome[t].kind = "returned"
Res(t) == outcome[t].result

HasError(conv) == \E i \in 1..Len(conv) : conv[i].role = "error"

Overridden(t) == args[t].max_iterations # NoOverride

\* the maximum in force for the call of t; a negative maximum allows no round
MaximumInForce(t) ==
    IF ~Overridden(t) THEN max_agent_iterations
    ELSE IF args[t].max_iterations[1] < 0 THEN 0
    ELSE args[t].max_iterations[1]

\* a completion keyword in a text, whatever the case of its letters
MentionsCompletion(text) ==
    \E k \in { <<"c","o","m","p","l","e","t","e","d">>, <<"f","i","n","i","s","h","e","d">>,
               <<"d","o","n","e">>, <<"a","c","c","o","m","p","l","i","s","h","e","d">> } :
        \E i \in 1..Len(text) :
            /\ i + Len(k) - 1 <= Len(text)
            /\ \A j \in 1..Len(k) : LowerChar(text[i + j - 1]) = k[j]

\* C1: a call of execute_task whose max_iterations override is zero or
\* negative never calls the generator and returns completed = false and
\* iterations = 0.
C1_NonPositiveOverrideRunsNoRound ==
    \A t \in Tasks :
        (Overridden(t) /\ args[t].max_iterations[1] <= 0)
        => /\ genCalls[t] = 0
           /\ Returned(t) => (~Res(t).completed /\ Res(t).iterations = 0)

\* C2: a generator failure in a round (model unavailable, a fault inside
\* generation, a raising call) ends the task ABORTED: the result has
\* completed = false and its conversation holds an error message.
C2_GeneratorFailureAborts ==
    \A t \in Tasks :
        (Returned(t) /\ lastRound[t].llm \in {"unavailable", "fault", "raise"})
        => (~Res(t).completed /\ HasError(Res(t).conversation))

\* C3: when the generator call of a round raises, exactly one error message
\* is appended, as the last message; the loop is left with no further
\* generator call and no further tool invocation; completed is false and
\* the messages and tool results of the earlier rounds are intact, in the
\* call and in the result it returns.
C3_GeneratorRaiseHalts ==
    \A t \in Tasks :
        lastRound[t].kind = "genraise"
        => /\ pc[t] \in {"exit", "done"}
           /\ Len(conversation[t]) = Len(lastRound[t].conv0) + 1
           /\ SubSeq(conversation[t], 1, Len(lastRound[t].conv0)) = lastRound[t].conv0
           /\ conversation[t][Len(conversation[t])].role = "error"
           /\ ~HasError(lastRound[t].conv0)
           /\ genCalls[t] = lastRound[t].gen
           /\ toolRuns[t] = lastRound[t].runs
           /\ results[t] = lastRound[t].results0
           /\ ~task_completed[t]
           /\ Returned(t) => /\ ~Res(t).completed
                             /\ Res(t).tool_results = lastRound[t].results0
                             /\ Res(t).conversation = conversation[t]
                             /\ Res(t).iterations = lastRound[t].gen

C3_Witness ==
    \E t \in Tasks :
        /\ Returned(t)
        /\ lastRound[t].kind = "genraise"
        /\ lastRound[t].gen >= 2
        /\ Len(Res(t).tool_results) >= 3

\* C4: no call of execute_task raises to its caller.
C4_NeverRaises == \A t \in Tasks : outcome[t].kind # "raised"

\* C5: a conversation holds an error message only if a generator call
\* failed; no tool call aborts the task.
C5_OnlyGeneratorFailureAborts ==
    \A t \in Tasks :
        HasError(conversation[t]) => lastRound[t].kind = "genraise"

RECURSIVE InSafeGrammar(_)
\* numeric literals with +, -, *, /, ^ and unary minus
InSafeGrammar(e) ==
    \/ e.node = "Num"
    \/ e.node = "UnaryOp" /\ e.op = "-" /\ InSafeGrammar(e.args[1])
    \/ /\ e.node = "BinOp"
       /\ e.op \in {"+", "-", "*", "/", "^"}
       /\ InSafeGrammar(e.args[1])
       /\ InSafeGrammar(e.args[2])

\* C6: on an input outside the safe grammar the calculator returns an
\* error-describing string and evaluates nothing.
C6_CalculatorRejectsOtherSyntax ==
    (calc.out.kind # "none" /\ ~InSafeGrammar(calc.expression))
    => (calc.out.kind = "Error calculating" /\ ~calc.out.ran)

\* C7: in every returned result and in its execution record, iterations is
\* at most the maximum in force for the call (the override when one is
\* supplied, otherwise the configured default).
C7_IterationsWithinMaximum ==
    \A t \in Tasks :
        Returned(t)
        => /\ Res(t).iterations <= MaximumInForce(t)
           /\ execution_history[recordAt[t]].iterations <= MaximumInForce(t)

\* the content of the last assistant message of a conversation
LastAssistant(conv) ==
    conv[CHOOSE i \in 1..Len(conv) :
            /\ conv[i].role = "assistant"
            /\ \A j \in (i+1)..Len(conv) : conv[j].role # "assistant"].content

\* C8: whenever completed = true is returned, the last round was not
\* aborted and either returned no tool call or has an assistant message
\* that contains a completion keyword; at least one round ran.
C8_CompletedOnlyByToolFreeRoundOrKeyword ==
    \A t \in Tasks :
        (Returned(t) /\ Res(t).completed)
        => /\ Res(t).iterations >= 1
           /\ lastRound[t].kind = "reply"
           /\ ~HasError(Res(t).conversation)
           /\ LastAssistant(Res(t).conversation) = lastRound[t].content
           /\ \/ lastRound[t].ncalls = 0
              \/ MentionsCompletion(LastAssistant(Res(t).conversation))

C8_Witness ==
    \E t \in Tasks :
        /\ Returned(t)
        /\ Res(t).completed
        /\ lastRound[t].ncalls = 2
        /\ Res(t).iterations = 2
        /\ MentionsCompletion(LastAssistant(Res(t).conversation))

\* C9: a round whose reply carries no tool call completes the task in that
\* very round, keyword or not: the returned iterations is the number of that
\* round (1 when it is the first one) and completed is true.
C9_ToolFreeRoundCompletes ==
    \A t \in Tasks :
        (lastRound[t].kind = "reply" /\ lastRound[t].ncalls = 0)
        => /\ task_completed[t]
           /\ iterations[t] = lastRound[t].gen
           /\ Returned(t) => (Res(t).completed /\ Res(t).iterations = lastRound[t].gen)

C9_Witness ==
    \E t \in Tasks :
        /\ Returned(t)
        /\ lastRound[t].kind = "reply"
        /\ lastRound[t].llm = "text"
        /\ lastRound[t].ncalls = 0
        /\ ~MentionsCompletion(lastRound[t].content)
        /\ Res(t).iterations = 1
        /\ Res(t).completed

\* C10: a round whose assistant reply contains a completion keyword is the
\* last one and the task ends COMPLETED, tool calls or not, and every tool
\* call of that round is executed and recorded before the loop stops.
C10_KeywordRoundCompletes ==
    \A t \in Tasks :
        (Returned(t) /\ lastRound[t].kind # "none" /\ lastRound[t].llm # "raise"
                     /\ MentionsCompletion(lastRound[t].content))
        => /\ Res(t).completed
           /\ toolRuns[t] = lastRound[t].runs + lastRound[t].ncalls
           /\ Len(Res(t).tool_results) = Len(lastRound[t].results0) + lastRound[t].ncalls


\* every round of the conversation had a reply with a tool call and without
\* a completion keyword: each assistant message is followed by the tool
\* message (or the error message) of its first tool call
EveryRoundCallsTools(conv) ==
    \A i \in 1..Len(conv) :
        conv[i].role = "assistant"
        => /\ ~MentionsCompletion(conv[i].content)
           /\ i < Len(conv)
           /\ conv[i + 1].role \in {"tool", "error"}

\* C11: when every round's reply carries at least one tool call and no
\* completion keyword, and no generator call fails, the call runs exactly
\* max_iterations rounds and returns EXHAUSTED: completed = false,
\* iterations = max_iterations, no error message in the conversation.
C11_ToolRoundsRunToTheMaximum ==
    \A t \in Tasks :
        (/\ Returned(t)
         /\ lastRound[t].llm \notin {"unavailable", "fault", "raise"}
         /\ EveryRoundCallsTools(Res(t).conversation))
        => /\ ~Res(t).completed
           /\ Res(t).iterations = MaximumInForce(t)
           /\ genCalls[t] = MaximumInForce(t)
           /\ ~HasError(Res(t).conversation)

\* the tool a call names, and whether it is a name no registration ever gave
ToolOf(tool_call) == DictGet(tool_call, "\"tool\"", None)
NamesUnknownTool(tool_call) ==
    /\ ToolOf(tool_call)[1] \in {"str", "null"}
    /\ \A i \in 1..Len(tools) : <<tools[i].name>> # StrOf(ToolOf(tool_call))

\* the result string that names a tool as unknown
UnknownToolText(tool_call) ==
    <<"Error: Unknown tool '">> \o StrOf(ToolOf(tool_call)) \o <<"'">>

\* C12: a tool call naming a tool that was never registered yields a result
\* string naming the tool as unknown, appended as a tool message and as a
\* tool_results entry; the call does not abort the task (the rest of the
\* round stays to be run), and when the round limit allows and the reply
\* holds no completion keyword a further round runs, whose generator
\* prompt holds that result.
C12_UnknownToolIsReported ==
    /\ [][\A t \in Tasks :
            (pc[t] = "tools" /\ NamesUnknownTool(Head(pending[t])))
            => /\ results'[t] = Append(results[t],
                                  [tool |-> ToolOf(Head(pending[t])),
                                   parameters |-> DictGet(Head(pending[t]),
                                                          "\"parameters\"", None),
                                   result |-> UnknownToolText(Head(pending[t]))])
               /\ conversation'[t] = Append(conversation[t],
                                  [role |-> "tool",
                                   content |-> <<"Tool '">> \o StrOf(ToolOf(Head(pending[t])))
                                               \o <<"' result: ">>
                                               \o UnknownToolText(Head(pending[t]))])
               /\ pending'[t] = Tail(pending[t])
               /\ pc'[t] \in {"tools", "loop"}
               /\ lastRound'[t].kind = "reply"]_vars
    /\ [](\A t \in Tasks :
            /\ (/\ pc[t] = "loop"
                /\ lastRound[t].kind = "reply"
                /\ \E j \in 1..Len(lastRound[t].tool_calls) :
                       NamesUnknownTool(lastRound[t].tool_calls[j])
                /\ ~MentionsCompletion(lastRound[t].content)
                /\ iterations[t] < max_iter[t])
               => ENABLED (\E out \in LlmOutcomes : Round(t, out))
            /\ \A i \in 1..Len(lastRound[t].results0) :
                   (lastRound[t].results0[i].result
                        = <<"Error: Unknown tool '">>
                          \o StrOf(lastRound[t].results0[i].tool) \o <<"'">>)
                   => Contains(lastRound[t].prompt,
                               <<"Tool Result: ", "Tool '">>
                               \o StrOf(lastRound[t].results0[i].tool)
                               \o <<"' result: ", "Error: Unknown tool '">>
                               \o StrOf(lastRound[t].results0[i].tool) \o <<"'">>))

\* a second round is under way whose prompt shows the unknown-tool result of
\* the first
C12_Witness ==
    \E t \in Tasks :
        /\ lastRound[t].gen = 2 /\ lastRound[t].kind = "reply"
        /\ \E i \in 1..Len(lastRound[t].results0) :
               /\ lastRound[t].results0[i].tool = <<"str", "\"frobnicate\"">>
               /\ lastRound[t].results0[i].result
                      = <<"Error: Unknown tool '", "frobnicate", "'">>
        /\ Contains(lastRound[t].prompt,
                    <<"Tool Result: ", "Tool '", "frobnicate", "' result: ",
                      "Error: Unknown tool '", "frobnicate", "'">>)

\* the calls of execute_task that are over, by a return or by an exception
CallsOver ==
    calls - Cardinality({t \in Tasks : pc[t] \in InFlightStates})

\* C14: every call of execute_task appends exactly one ExecutionRecord to
\* the history, however it ends, and the record's iterations, completed and
\* results equal the fields of the result the call returns.
C14_OneRecordPerCall ==
    /\ Len(execution_history) = CallsOver
    /\ \A t \in Tasks :
           pc[t] \in {"done", "raised"}
           => /\ recordAt[t] \in 1..Len(execution_history)
              /\ Returned(t)
              /\ execution_history[recordAt[t]].iterations = Res(t).iterations
              /\ execution_history[recordAt[t]].completed = Res(t).completed
              /\ execution_history[recordAt[t]].results = Res(t).tool_results

\* the tool messages of a conversation, in order
ToolMessagesOf(conv) == SelectSeq(conv, LAMBDA m : m.role = "tool")

\* the tool calls of the round of t that have been invoked, and those of
\* them that have a recorded result (an invocation that raises has none)
InvokedInRound(t) == toolRuns[t] - lastRound[t].runs
RecordedInRound(t) ==
    InvokedInRound(t) - (IF lastRound[t].kind = "toolraise" THEN 1 ELSE 0)

\* C15: within a round the tool calls are invoked in the order the parsed
\* reply lists them, and over the whole task the i-th entry of tool_results
\* and the i-th tool message belong to the i-th invoked tool call (same
\* tool name, same result); there are as many tool messages as
\* tool_results entries.
C15_ToolCallsInParsedOrder ==
    \A t \in Tasks :
        /\ Len(ToolMessagesOf(conversation[t])) = Len(results[t])
        /\ \A i \in 1..Len(results[t]) :
               ToolMessagesOf(conversation[t])[i].content
                   = <<"Tool '">> \o StrOf(results[t][i].tool) \o <<"' result: ">>
                     \o results[t][i].result
        /\ lastRound[t].kind \in {"reply", "toolraise"}
           => /\ Len(results[t]) = Len(lastRound[t].results0) + RecordedInRound(t)
              /\ SubSeq(results[t], 1, Len(lastRound[t].results0)) = lastRound[t].results0
              /\ InvokedInRound(t) + Len(pending[t]) <= Len(lastRound[t].tool_calls)
              /\ \A j \in 1..RecordedInRound(t) :
                     /\ results[t][Len(lastRound[t].results0) + j].tool
                            = ToolOf(lastRound[t].tool_calls[j])
                     /\ results[t][Len(lastRound[t].results0) + j].result
                            = execute_tool(tools, lastRound[t].tool_calls[j]).value
              /\ \A j \in 1..Len(pending[t]) :
                     pending[t][j] = lastRound[t].tool_calls[
                                         Len(lastRound[t].tool_calls) - Len(pending[t]) + j]
        /\ Returned(t) => /\ Res(t).tool_results = results[t]
                          /\ Res(t).conversation = conversation[t]

\* a call has returned after two rounds of three tool calls each
C15_Witness ==
    \E t \in Tasks :
        /\ Returned(t)
        /\ Len(Res(t).tool_results) = 6
        /\ Res(t).tool_results[4].tool # Res(t).tool_results[5].tool
        /\ Len(ToolMessagesOf(Res(t).conversation)) = 6

\* the rounds a conversation shows to have started: one assistant message
\* per round whose generator call returned
AssistantMessages(conv) == Len(SelectSeq(conv, LAMBDA m : m.role = "assistant"))

\* the task ended COMPLETED: its last round ran to its end, with a reply
\* free of tool calls or holding a completion keyword
EndedCompleted(t) ==
    /\ lastRound[t].kind = "reply"
    /\ ~HasError(Res(t).conversation)
    /\ \/ lastRound[t].ncalls = 0
       \/ MentionsCompletion(lastRound[t].content)

\* C17: in every returned result, response is the content of the last
\* message of the returned conversation (the task itself when no round
\* ran), completed is true only when the task ended COMPLETED, and
\* iterations is the number of rounds started.
C17_ResultFields ==
    \A t \in Tasks :
        Returned(t)
        => /\ Res(t).conversation # <<>>
           /\ Res(t).response
                  = Res(t).conversation[Len(Res(t).conversation)].content
           /\ genCalls[t] = 0 => Res(t).response = args[t].task
           /\ Res(t).completed => EndedCompleted(t)
           /\ Res(t).iterations = genCalls[t]
           /\ Res(t).iterations
                  = AssistantMessages(Res(t).conversation)
                    + (IF lastRound[t].kind = "genraise" THEN 1 ELSE 0)

\* a call has returned after two rounds, its last message a tool result
C17_Witness ==
    \E t \in Tasks :
        /\ Returned(t)
        /\ Res(t).iterations = 2
        /\ Res(t).conversation[Len(Res(t).conversation)].role = "tool"
        /\ Res(t).response = Res(t).conversation[Len(Res(t).conversation)].content

\* a tool call that names a registered tool whose handler fails when invoked
\* with the parameters of the call
HandlerFails(tool_call) ==
    /\ ToolOf(tool_call)[1] = "str"
    /\ \E i \in 1..Len(tools) :
           /\ <<tools[i].name>> = StrOf(ToolOf(tool_call))
           /\ CallHandler(tools[i].func,
                          DictGet(tool_call, "\"parameters\"", EmptyDict)).raised

ExecutionErrorPrefix == "Error executing tool: "

\* C13: when the handler of a registered tool fails during its invocation,
\* or is called with parameters it does not take, the failure becomes a
\* result string with the execution-error prefix, recorded as the result of
\* that call (tool message and tool_results entry); the remaining tool calls
\* of the round stay to be run and the following round runs.
C13_HandlerFailureIsReported ==
    /\ [][\A t \in Tasks :
            (pc[t] = "tools" /\ HandlerFails(Head(pending[t])))
            => /\ Len(results'[t]) = Len(results[t]) + 1
               /\ results'[t][Len(results'[t])].tool = ToolOf(Head(pending[t]))
               /\ results'[t][Len(results'[t])].result[1] = ExecutionErrorPrefix
               /\ Len(conversation'[t]) = Len(conversation[t]) + 1
               /\ conversation'[t][Len(conversation'[t])]
                      = [role |-> "tool",
                         content |-> <<"Tool '">> \o StrOf(ToolOf(Head(pending[t])))
                                     \o <<"' result: ">>
                                     \o results'[t][Len(results'[t])].result]
               /\ pending'[t] = Tail(pending[t])
               /\ pc'[t] \in {"tools", "loop"}
               /\ lastRound'[t].kind = "reply"]_vars
    /\ [](\A t \in Tasks :
            /\ lastRound[t].kind = "toolraise"
               => ~HandlerFails(lastRound[t].tool_calls[InvokedInRound(t)])
            /\ (/\ pc[t] = "loop"
                /\ lastRound[t].kind = "reply"
                /\ \E j \in 1..Len(lastRound[t].tool_calls) :
                       HandlerFails(lastRound[t].tool_calls[j])
                /\ ~MentionsCompletion(lastRound[t].content)
                /\ iterations[t] < max_iter[t])
               => ENABLED (\E out \in ScriptedOutcomes : Round(t, out)))

\* the replaced clock has failed, echo has refused a parameter it does not
\* take, the last call of the round has run, and a second round is under way
C13_Witness ==
    \E t \in Tasks :
        /\ lastRound[t].gen = 2
        /\ Len(lastRound[t].results0) = 3
        /\ lastRound[t].results0[1].result = <<"Error executing tool: ", "boom">>
        /\ lastRound[t].results0[2].result
               = <<"Error executing tool: ", "got an unexpected keyword argument">>
        /\ lastRound[t].results0[3].result = <<"hi">>

\* the registry holds, under the name echo, the handler that returns its
\* parameter unchanged
EchoRegistered ==
    \E i \in 1..Len(tools) : tools[i].name = "echo" /\ tools[i].func = "echo"

\* the round of t had the one tool call {tool: echo, parameters: {msg: hi}}
\* and has run it
EchoRoundRun(t) ==
    /\ lastRound[t].kind = "reply"
    /\ lastRound[t].tool_calls = <<EchoCall>>
    /\ pc[t] # "tools"

\* C16: once a tool is registered whose handler returns its parameter
\* unchanged, a round whose generator output carries the one tool call
\* {tool: name, parameters: p} produces exactly one tool message, whose
\* content holds the value the handler returned, and exactly one
\* tool_results entry {tool: name, parameters: p, result: handler(p)}.
C16_EchoRoundTrip ==
    /\ [][\A t \in Tasks :
            (/\ EchoRegistered
             /\ pc[t] = "tools"
             /\ lastRound[t].tool_calls = <<EchoCall>>)
            => /\ results'[t] = Append(lastRound[t].results0,
                                  [tool |-> <<"str", "\"echo\"">>,
                                   parameters |-> <<"dict", "\"msg\"", <<"str", "\"hi\"">> >>,
                                   result |-> <<"hi">>])
               /\ conversation'[t]
                      = lastRound[t].conv0
                        \o << [role |-> "assistant", content |-> lastRound[t].content],
                              [role |-> "tool",
                               content |-> <<"Tool '", "echo", "' result: ", "hi">>] >>
               /\ Contains(conversation'[t][Len(conversation'[t])].content, <<"hi">>)
               /\ pc'[t] = "loop"]_vars
    /\ [](\A t \in Tasks :
            EchoRoundRun(t)
            => /\ Len(results[t]) = Len(lastRound[t].results0) + 1
               /\ Len(ToolMessagesOf(conversation[t]))
                      = Len(ToolMessagesOf(lastRound[t].conv0)) + 1)

\* the echo round of a call has run with echo registered
C16_Witness ==
    \E t \in Tasks :
        /\ EchoRegistered /\ EchoRoundRun(t)
        /\ lastRound[t].gen = 1
        /\ results[t] # <<>>
        /\ results[t][1].result = <<"hi">>

\* C18: the value get_execution_history returns is a read-only snapshot: a
\* later execute_task or clear_history changes neither the content nor the
\* length of a value returned earlier, and a change the caller makes to the
\* returned value does not change the history of the executor.
C18_HistoryIsASnapshot ==
    /\ [](held.ref # "none" /\ ~held.popped => Deref(held.ref) = held.at)
    /\ [][(held.ref # "none" /\ ~held.popped /\ held'.popped)
          => execution_history' = execution_history]_vars

\* C19: two calls of get_execution_history with no task execution finishing
\* and no clear_history between them return sequences of the same length
\* and content; get_execution_history itself changes neither the history
\* nor the tool registry.
C19_GetHistoryIsIdempotent ==
    /\ [](Len(gets) = 2 => (Len(gets[1]) = Len(gets[2]) /\ gets[1] = gets[2]))
    /\ [][(gets' # <<>> /\ (gets' # gets \/ held' # held))
          => (execution_history' = execution_history /\ tools' = tools)]_vars

\* two calls in a row have returned a history of one record
C19_Witness ==
    /\ Len(gets) = 2
    /\ Len(gets[2]) = 1
    /\ held.at = gets[2]
    /\ execution_history = gets[2]

\* every registration made so far, those of the constructor first
AllRegistrations == DefaultRegistrations \o registered

\* the most recent registration of a name
LastRegistration(name) ==
    AllRegistrations[CHOOSE k \in 1..Len(AllRegistrations) :
        /\ AllRegistrations[k].name = name
        /\ \A m \in (k + 1)..Len(AllRegistrations) : AllRegistrations[m].name # name]

\* C20: register_tool never fails and the last registration of a name wins:
\* after any sequence of registrations the registry holds exactly one entry
\* per distinct name, with the description and the handler of the most
\* recent registration of that name; a built-in tool registered anew under
\* its name is replaced, and later invocations of the name reach the new
\* handler.
C20_LastRegistrationWins ==
    /\ [](/\ \A i, j \in 1..Len(tools) : tools[i].name = tools[j].name => i = j
          /\ {tools[i].name : i \in 1..Len(tools)}
                 = {AllRegistrations[k].name : k \in 1..Len(AllRegistrations)}
          /\ \A i \in 1..Len(tools) : tools[i] = LastRegistration(tools[i].name)
          /\ (Quiescent /\ Len(registered) < MaxRegistrations)
             => \A r \in RegistrationArgs :
                    ENABLED RegisterTool(r.name, r.description, r.func))
    /\ [][\A t \in Tasks :
            (/\ pc[t] = "tools"
             /\ ToolOf(Head(pending[t]))[1] = "str"
             /\ \E k \in 1..Len(AllRegistrations) :
                    <<AllRegistrations[k].name>> = StrOf(ToolOf(Head(pending[t]))))
            => LET e == LastRegistration(StrOf(ToolOf(Head(pending[t])))[1])
                   r == CallHandler(e.func, DictGet(Head(pending[t]),
                                                    "\"parameters\"", EmptyDict))
               IN /\ Len(results'[t]) = Len(results[t]) + 1
                  /\ results'[t][Len(results'[t])].result
                         = IF r.raised THEN <<"Error executing tool: ">> \o r.value
                           ELSE r.value]_vars

\* get_current_time was registered anew with a handler that raises, and an
\* invocation of get_current_time has reached the new handler
C20_Witness ==
    /\ \E i \in 1..Len(tools) :
           /\ tools[i].name = "get_current_time"
           /\ tools[i].description = "Broken clock"
           /\ tools[i].func = "broken_clock"
    /\ \E t \in Tasks : \E i \in 1..Len(results[t]) :
           /\ results[t][i].tool = <<"str", "\"get_current_time\"">>
           /\ results[t][i].result = <<"Error executing tool: ", "boom">>

RECURSIVE FirstOccurrences(_, _)
\* the names of a sequence of registrations, each once, in the order of
\* their first registration
FirstOccurrences(regs, seen) ==
    IF regs = <<>> THEN <<>>
    ELSE IF Head(regs).name \in seen THEN FirstOccurrences(Tail(regs), seen)
    ELSE <<Head(regs).name>>
         \o FirstOccurrences(Tail(regs), seen \cup {Head(regs).name})

\* C21: the tool catalog handed to the generator in a round lists every
\* registered tool exactly once, as a pair of name and description, in
\* registration order, and holds no handler.
C21_CatalogListsRegistry ==
    [][\A t \in Tasks :
          genCalls'[t] = genCalls[t] + 1
          => LET catalog == lastRound'[t].catalog
                 names == FirstOccurrences(AllRegistrations, {})
             IN /\ Len(catalog) = Len(names)
                /\ \A i \in 1..Len(catalog) :
                       /\ DOMAIN catalog[i] = {"name", "description"}
                       /\ catalog[i].name = names[i]
                       /\ catalog[i].description
                              = LastRegistration(names[i]).description
                /\ \A i, j \in 1..Len(catalog) :
                       catalog[i].name = catalog[j].name => i = j]_vars

\* a round has been given a catalog of eight tools, echo the last of them,
\* after get_current_time was registered anew
C21_Witness ==
    \E t \in Tasks :
        /\ lastRound[t].kind = "reply"
        /\ Len(lastRound[t].catalog) = 8
        /\ lastRound[t].catalog[8] = [name |-> "echo", description |-> "Echo"]
        /\ lastRound[t].catalog[3]
               = [name |-> "get_current_time", description |-> "Broken clock"]

\* the fragments of the parsed reply that are tool calls: JSON objects
\* without nesting that hold the key tool
ExtractableFragments == {TimeDirective}

\* the fragments of the parsed reply, and its tool calls
ParsedFragments == {parse.fragments[i] : i \in 1..Len(parse.fragments)}

\* C22: the tool-call parser removes from the reply text exactly the
\* fragments it extracted as tool calls: a fragment that does not decode as
\* JSON or lacks the key tool yields no tool call, does not fail the call,
\* and stays verbatim in the text of the reply.
C22_OnlyExtractedFragmentsRemoved ==
    /\ Len(parse.out.tool_calls)
           = Cardinality({i \in 1..Len(parse.fragments) :
                              parse.fragments[i] \in ExtractableFragments})
    /\ \A f \in ParsedFragments :
           /\ f \in ExtractableFragments => ~Contains(parse.out.response, f)
           /\ f \in {UndecodableFragment, NoToolKeyFragment, UnterminatedFragment}
              => Contains(parse.out.response, f)

\* C28: a reply holding a tool directive in the format the generator is
\* told to use, {"tool": name, "parameters": {...}} with the parameters
\* object nested in the directive, is parsed into one tool call with that
\* tool name and that parameters mapping, and the directive is removed from
\* the text of the reply.
C28_NestedDirectiveIsParsed ==
    NestedDirective \in ParsedFragments
    => /\ \E i \in 1..Len(parse.out.tool_calls) :
              /\ DictGet(parse.out.tool_calls[i], "\"tool\"", None) = <<"str", "\"echo\"">>
              /\ DictGet(parse.out.tool_calls[i], "\"parameters\"", None)
                     = <<"dict", "\"msg\"", <<"str", "\"hi\"">> >>
       /\ ~Contains(parse.out.response, NestedDirective)

(***************************************************************************)
(* Overlapping calls: every step of a call, with the points at which the   *)
(* call is inside the generator or inside a handler made visible.          *)
(***************************************************************************)
ConcBeginStep ==
    /\ calls < MaxOverlappingCalls
    /\ \E t \in Tasks : Begin(t, ConcTask(t), "None", <<2>>, "en")
ConcRegisterStep ==
    /\ Len(registered) < Len(ConcRegistrations)
    /\ LET r == ConcRegistrations[Len(registered) + 1]
       IN RegisterTool(r.name, r.description, r.func)
GenerateStep == \E t \in Tasks : GenerateBegin(t)
ConcRoundStep ==
    \E t \in Tasks : pc[t] = "generating" /\ \E out \in ConcOutcomes(t) : Round(t, out)
ToolBeginStep == \E t \in Tasks : ToolBegin(t)
ToolReturnStep == \E t \in Tasks : pc[t] = "calling" /\ ExecTool(t)
AwaitStep == \E t \in Tasks : AwaitTool(t)
ResumeStep == \E t \in Tasks : ResumeTool(t)

ConcNext ==
    \/ ConcBeginStep
    \/ ConcRegisterStep
    \/ GenerateStep
    \/ ConcRoundStep
    \/ ToolBeginStep
    \/ ToolReturnStep
    \/ AwaitStep
    \/ ResumeStep
    \/ FinishStep

ConcSpec == Init /\ [][ConcNext]_vars

\* m is a message call t of the overlapping runs can produce: its user
\* message, a reply the generator gives to it, or the tool message of the
\* tool call the generator asks for on its behalf
OwnMessage(t, m) ==
    CASE m.role = "user" -> m.content = ConcTask(t)
      [] m.role = "assistant" -> \E out \in ConcOutcomes(t) : m.content = out.text
      [] m.role = "tool" ->
            \/ m = ToolMessage(ConcCall(t), <<ToString(t)>>)
            \/ m = ToolMessage(ConcCall(t), <<ToString(t), "!">>)
            \/ m = ToolMessage(ConcCall(t), <<"Error: Unknown tool '", "echo", "'">>)
      [] OTHER -> FALSE

OwnResult(t, r) ==
    /\ r.tool = <<"str", "\"echo\"">>
    /\ r.parameters = Dict1("\"msg\"", <<"int", ToString(t)>>)

\* C23: whatever the interleaving of overlapping execute_task calls, the
\* conversation and the tool results of a call hold only what that call
\* produced (one message per generator call and per tool call of its own,
\* after its own user message, and one result per tool call of its own),
\* and the history holds one record per call that has returned, the record
\* of that call.
C23_CallsAreIsolated ==
    /\ \A t \in Tasks : pc[t] \in InFlightStates \cup {"done"} =>
        /\ \A i \in 1..Len(conversation[t]) : OwnMessage(t, conversation[t][i])
        /\ \A i \in 1..Len(results[t]) : OwnResult(t, results[t][i])
        /\ Len(conversation[t]) = 1 + genCalls[t] + toolRuns[t]
        /\ Len(results[t]) = toolRuns[t]
    /\ Len(execution_history) + Cardinality({t \in Tasks : pc[t] \in InFlightStates})
          = calls
    /\ \A t \in Tasks : pc[t] = "done" =>
        /\ recordAt[t] \in 1..Len(execution_history)
        /\ execution_history[recordAt[t]].task = ConcTask(t)
        /\ execution_history[recordAt[t]].conversation = Res(t).conversation
        /\ execution_history[recordAt[t]].results = Res(t).tool_results
        /\ Res(t).conversation = conversation[t]
        /\ Res(t).tool_results = results[t]
    /\ \A t, u \in Tasks : (pc[t] = "done" /\ pc[u] = "done" /\ t # u)
                              => recordAt[t] # recordAt[u]

\* two calls overlapped (the one begun second returned first), both ran
\* tool calls, and both have returned
C23_Witness ==
    /\ pc[1] = "done" /\ pc[2] = "done"
    /\ recordAt[2] < recordAt[1]
    /\ results[1] # <<>> /\ results[2] # <<>>
    /\ Len(execution_history) = 2

\* where a call is inside an operation it waits for: the generator call,
\* a handler that does not suspend, a handler that suspends
WaitingStates == {"generating", "calling", "awaiting"}

\* C24: a call that is waiting, on the generator's response or on a tool
\* invocation, synchronous or asynchronous, does not keep another call from
\* making progress: whenever one call is inside its generator call or a
\* tool invocation and another call has a step to take (its awaited handler
\* is about to return), the other call can take that step.
C24_WaitingDoesNotBlockOthers ==
    \A t, u \in Tasks :
        (t # u /\ pc[t] \in WaitingStates /\ pc[u] = "awaiting")
            => ENABLED ResumeTool(u)

\* the tool calls of the present round of call t that have returned
ReturnedInRound(t) == lastRound[t].ncalls - Len(pending[t])

\* the first k tool calls of the round of call t have returned and their
\* results stand, in order, in the conversation and in the results
RoundDoneUpTo(t, k) ==
    /\ toolRuns[t] = lastRound[t].runs + k
    /\ Len(conversation[t]) = Len(lastRound[t].conv0) + 1 + k
    /\ Len(results[t]) = Len(lastRound[t].results0) + k
    /\ \A i \in 1..k :
        /\ conversation[t][Len(lastRound[t].conv0) + 1 + i].role = "tool"
        /\ results[t][Len(lastRound[t].results0) + i].tool
             = DictGet(lastRound[t].tool_calls[i], "\"tool\"", None)

\* C25: within one call at most one operation is in flight: when the
\* generator call of a round starts, every tool call of the round before has
\* returned, and when a tool call starts, every earlier tool call of the same
\* round has returned and its result has been appended to the conversation.
C25_OneOperationInFlight ==
    \A t \in Tasks :
        /\ pc[t] = "generating" =>
              /\ pending[t] = <<>>
              /\ lastRound[t].kind \in {"none", "reply"}
              /\ lastRound[t].kind = "reply" => RoundDoneUpTo(t, lastRound[t].ncalls)
        /\ pc[t] \in {"calling", "awaiting"} =>
              /\ pending[t] # <<>>
              /\ lastRound[t].kind = "reply"
              /\ pending[t] = SubSeq(lastRound[t].tool_calls, ReturnedInRound(t) + 1,
                                     lastRound[t].ncalls)
              /\ RoundDoneUpTo(t, ReturnedInRound(t))

\* a call is inside the second tool call of its second round, the first
\* having returned
C25_Witness ==
    \E t \in Tasks :
        /\ pc[t] \in {"calling", "awaiting"}
        /\ lastRound[t].gen = 2
        /\ ReturnedInRound(t) = 1

\* the i-th tool result call t has recorded, <<>> when there is none
ResultAt(t, i) == IF i \in 1..Len(results[t]) THEN results[t][i].result ELSE <<>>

\* C30: the registry is not snapshotted per call: the catalog of a round is
\* built from the registry as it is when the round starts, registrations made
\* while the call was in flight included, and a tool call goes to the handler
\* registered under its name when the call is made, not to the one that was
\* registered when the round's catalog was built.
C30_RegistryIsLive ==
    [][\A t \in Tasks :
        /\ (genCalls'[t] = genCalls[t] + 1)
              => lastRound'[t].catalog = tool_list(tools)
        /\ (pc[t] = "tools" /\ pc'[t] = "awaiting")
              => lastRound'[t].awaited = HandlerOf(tools, Head(pending[t]))
        /\ (pc[t] \in {"tools", "calling"} /\ toolRuns'[t] = toolRuns[t] + 1
               /\ Len(results'[t]) = Len(results[t]) + 1)
              => results'[t][Len(results'[t])].result
                    = execute_tool(tools, Head(pending[t])).value
        /\ (pc[t] = "awaiting" /\ toolRuns'[t] = toolRuns[t] + 1)
              => /\ Len(results'[t]) = Len(results[t]) + 1
                 /\ results'[t][Len(results'[t])].result
                      = HandlerBody(lastRound[t].awaited,
                                    DictGet(Head(pending[t]), "\"parameters\"",
                                            EmptyDict)).value
      ]_vars

\* echo was registered anew while a call awaited its first tool call: that
\* call was answered by the handler it was made to, the second call of the
\* same round went to the new handler, and the catalog of the next round
\* lists the new entry
C30_Witness ==
    \E t \in Tasks :
        /\ lastRound[t].gen = 2
        /\ ResultAt(t, 1) = <<ToString(t)>>
        /\ ResultAt(t, 2) = <<ToString(t), "!">>
        /\ \E i \in 1..Len(lastRound[t].catalog) :
              lastRound[t].catalog[i] = [name |-> "echo", description |-> "Shout"]

\* C26: the conversation and the results of an ExecutionRecord are snapshots
\* taken at task end: when the caller changes the conversation or the
\* tool_results of the result it was returned, the records of the history
\* stay as they were.
C26_RecordIsASnapshot ==
    [][\A t \in Tasks :
          (pc[t] = "done" /\ pc'[t] = "done" /\ outcome'[t] # outcome[t])
              => execution_history' = execution_history]_vars

\* the round call t ran last ended in the except clause of agent.py:172
LastRoundAborted(t) == lastRound[t].kind \in {"genraise", "toolraise"}

\* conv is conv2 or a start of it
StartOf(conv, conv2) ==
    Len(conv) <= Len(conv2) /\ conv = SubSeq(conv2, 1, Len(conv))

\* C29: in every execution the number of generator calls equals the
\* returned iterations; the conversation holds one assistant message per
\* iteration when no round was aborted and one less when the last round was
\* aborted; and the conversation only grows, each message keeping its place
\* and content once appended.
C29_MessagesPerIteration ==
    /\ [](\A t \in Tasks : Returned(t) =>
            /\ genCalls[t] = Res(t).iterations
            /\ AssistantMessages(Res(t).conversation)
                 = IF LastRoundAborted(t)
                   THEN Res(t).iterations - 1 ELSE Res(t).iterations)
    /\ [][\A t \in Tasks : pc[t] \in InFlightStates
                              => StartOf(conversation[t], conversation'[t])]_vars

\* the terminal states of a returned call
Completed(t) == Res(t).completed
Aborted(t) == ~Res(t).completed /\ HasError(Res(t).conversation)
Exhausted(t) ==
    /\ ~Res(t).completed /\ ~HasError(Res(t).conversation)
    /\ Res(t).iterations >= max_iter[t]

\* C27: provided every generator call and every tool invocation returns or
\* fails in the end, every call of execute_task returns in the end, and a
\* call that has returned has reached exactly one of COMPLETED, ABORTED and
\* EXHAUSTED after no more rounds than the maximum allows.
C27_EveryCallReturns ==
    /\ \A t \in Tasks : (pc[t] # "idle") ~> Returned(t)
    /\ [](\A t \in Tasks : Returned(t) =>
            /\ Cardinality({s \in {"COMPLETED", "ABORTED", "EXHAUSTED"} :
                    \/ s = "COMPLETED" /\ Completed(t)
                    \/ s = "ABORTED" /\ Aborted(t)
                    \/ s = "EXHAUSTED" /\ Exhausted(t)}) = 1
            /\ Res(t).iterations <= IF max_iter[t] > 0 THEN max_iter[t] ELSE 0)

=============================================================================
